---- MODULE Spec2Model ----
(***************************************************************************)
(* hgnc_lookup: the HGNC cache builder (create_hgnc_cache_from_reader),    *)
(* the persistence functions (dump_hgnc_cache, load_hgnc_cache), the cache *)
(* lifecycle (get_hgnc_cache, main) and the query engine                   *)
(* (query_lookup_table).                                                   *)
(*                                                                         *)
(* A string is a sequence of characters, a character a one-element token.  *)
(* "U+212A" is the KELVIN SIGN, an uppercase letter whose lowercase is "k" *)
(* while the uppercase of "k" is "K".                                      *)
(***************************************************************************)
EXTENDS Integers, Sequences, FiniteSets

VARIABLES
    cli,        \* main: the parsed command line (set_file, interactive, force_rebuild, delete_cache)
    input,      \* the lines of the text the build reads: the --set-file file, or the download's body
    archive,    \* the file at bin_path: whether it exists, and its bytes
    pc,         \* position of main / get_hgnc_cache
    reader,     \* create_hgnc_cache_from_reader: the lines not read yet
    col_map,    \* create_hgnc_cache_from_reader: header name -> column index
    cache,      \* create_hgnc_cache_from_reader: the HgncCache being built
    view,       \* main: hgnc_cache, the loaded &ArchivedHgncCache (loaded = FALSE before)
    query,      \* run_interactive: the last line read from stdin
    query_res,  \* run_interactive: the last result of query_lookup_table
    log         \* the steps done so far: "delete", "open", "fetch", "build", "write", "load"

vars == <<cli, input, archive, pc, reader, col_map, cache, view, query,
          query_res, log>>

----------------------------------------------------------------------------
(* Bounds *)

\* the most data lines of an input
MaxRows == 2

----------------------------------------------------------------------------
(* Strings *)

Tab == "\t"
Pipe == "|"
Space == " "
Kelvin == "U+212A"

\* char::to_uppercase
UpperChar(c) ==
    CASE c = "a" -> "A"
      [] c = "k" -> "K"
      [] OTHER -> c

\* char::is_whitespace
IsWhitespace(c) == c = Space \/ c = Tab

\* str::to_uppercase
ToUppercase(s) == [i \in 1..Len(s) |-> UpperChar(s[i])]

RECURSIVE TrimStart(_)
\* str::trim_start
TrimStart(s) ==
    IF s # <<>> /\ IsWhitespace(Head(s)) THEN TrimStart(Tail(s)) ELSE s

RECURSIVE TrimEnd(_)
\* str::trim_end
TrimEnd(s) ==
    IF s # <<>> /\ IsWhitespace(s[Len(s)])
    THEN TrimEnd(SubSeq(s, 1, Len(s) - 1))
    ELSE s

\* str::trim
Trim(s) == TrimEnd(TrimStart(s))

RECURSIVE SplitFrom(_, _, _, _)
\* str::split: the pieces of s from position i on, cur being the piece in progress
SplitFrom(s, sep, i, cur) ==
    IF i > Len(s) THEN <<cur>>
    ELSE IF s[i] = sep THEN <<cur>> \o SplitFrom(s, sep, i + 1, <<>>)
    ELSE SplitFrom(s, sep, i + 1, Append(cur, s[i]))

\* str::split(sep): always at least one piece
Split(s, sep) == SplitFrom(s, sep, 1, <<>>)

RECURSIVE Join(_, _)
\* the line whose split is `pieces`
Join(pieces, sep) ==
    IF Len(pieces) = 0 THEN <<>>
    ELSE IF Len(pieces) = 1 THEN pieces[1]
    ELSE pieces[1] \o <<sep>> \o Join(Tail(pieces), sep)

\* Iterator::filter
Filter(seq, Keep(_)) == SelectSeq(seq, Keep)

----------------------------------------------------------------------------
(* Column names *)

hgnc_id == <<"h", "g", "n", "c", "_", "i", "d">>
symbol == <<"s", "y", "m", "b", "o", "l">>
alias_symbol == <<"a", "l", "i", "a", "s", "_">> \o symbol
prev_symbol == <<"p", "r", "e", "v", "_">> \o symbol

----------------------------------------------------------------------------
(* create_hgnc_cache_from_reader *)

\* HashMap::insert
MapInsert(m, k, v) == [x \in (DOMAIN m) \cup {k} |-> IF x = k THEN v ELSE m[x]]

\* HashMap::new
EmptyMap == [x \in {} |-> 0]

RECURSIVE BuildColMap(_, _, _)
\* the loop over headers.iter().enumerate(): header name -> index, a later
\* column of the same name replacing the earlier one
BuildColMap(headers, i, m) ==
    IF i >= Len(headers) THEN m
    ELSE BuildColMap(headers, i + 1, MapInsert(m, headers[i + 1], i))

\* get_field reading the column after the one the header names
get_field_next_column(cm, fields, field_name) ==
    IF field_name \in DOMAIN cm /\ cm[field_name] + 1 < Len(fields)
    THEN fields[cm[field_name] + 2]
    ELSE <<>>

\* the closure get_field: the field of the named column, or the empty string
get_field(cm, fields, field_name) ==
    IF field_name \in DOMAIN cm /\ cm[field_name] < Len(fields)
    THEN fields[cm[field_name] + 1]
    ELSE <<>>

\* the HgncRecord of a data line (of its 54 fields, all fetched by get_field,
\* the four that the index and the queries read)
MakeRecord(cm, fields) ==
    [hgnc_id |-> get_field(cm, fields, hgnc_id),
     symbol |-> get_field(cm, fields, symbol),
     alias_symbol |-> get_field(cm, fields, alias_symbol),
     prev_symbol |-> get_field(cm, fields, prev_symbol)]

NonEmpty(s) == s # <<>>

\* the keys of a pipe-delimited field, the segments left untrimmed
SegmentKeysUntrimmed(field) ==
    IF field # <<>>
    THEN LET segs == Filter(Split(field, Pipe), NonEmpty)
         IN [i \in 1..Len(segs) |-> ToUppercase(segs[i])]
    ELSE <<>>

\* the keys a pipe-delimited field inserts, in order:
\* split('|').filter(|s| !s.is_empty()), each trimmed and uppercased
SegmentKeys(field) ==
    IF field # <<>>
    THEN LET segs == Filter(Split(field, Pipe), NonEmpty)
         IN [i \in 1..Len(segs) |-> ToUppercase(Trim(segs[i]))]
    ELSE <<>>

\* the keys a record inserts, in insertion order
RecordKeys(record) ==
    <<ToUppercase(record.symbol)>>
        \o SegmentKeys(record.alias_symbol)
        \o SegmentKeys(record.prev_symbol)

RECURSIVE InsertKeysKeepFirst(_, _, _)
\* the insertion of the keys that keeps the entry a key already has
InsertKeysKeepFirst(lookup, keys, record_idx) ==
    IF keys = <<>> THEN lookup
    ELSE InsertKeysKeepFirst(
             IF Head(keys) \in DOMAIN lookup THEN lookup
             ELSE MapInsert(lookup, Head(keys), record_idx),
             Tail(keys), record_idx)

RECURSIVE InsertKeys(_, _, _)
\* cache.lookup.insert(key, record_idx) for every key in order
InsertKeys(lookup, keys, record_idx) ==
    IF keys = <<>> THEN lookup
    ELSE InsertKeys(MapInsert(lookup, Head(keys), record_idx), Tail(keys), record_idx)

\* the index taken after the push instead of before it
RecordIdxAfterPush(c) == Len(c.records) + 1

\* the index the record of this iteration is stored at
RecordIdx(c) == Len(c.records)

\* one iteration of the loop over the data lines
ProcessRow(c, cm, line) ==
    LET fields == Split(line, Tab)
        record == MakeRecord(cm, fields)
        record_idx == RecordIdx(c)
    IN [records |-> Append(c.records, record),
        lookup |-> InsertKeys(c.lookup, RecordKeys(record), record_idx)]

\* HgncCache { records: Vec::new(), lookup: HashMap::new() }
EmptyCache == [records |-> <<>>, lookup |-> EmptyMap]

RECURSIVE ProcessRows(_, _, _)
\* the loop over the data lines
ProcessRows(c, cm, lines) ==
    IF lines = <<>> THEN c
    ELSE ProcessRows(ProcessRow(c, cm, Head(lines)), cm, Tail(lines))

\* create_hgnc_cache_from_reader on an input whose lines all read: Ok(cache),
\* or "File is empty"
create_hgnc_cache_from_reader(lines) ==
    IF lines = <<>> THEN [ok |-> FALSE, err |-> "File is empty"]
    ELSE [ok |-> TRUE,
          cache |-> ProcessRows(EmptyCache,
                                BuildColMap(Split(Head(lines), Tab), 0, EmptyMap),
                                Tail(lines))]

----------------------------------------------------------------------------
(* The archive: rkyv::to_bytes and rkyv::access over HgncCache *)

RECURSIVE SetToSeq(_)
\* the entries of a hash map, in the order the archive stores them
SetToSeq(S) ==
    IF S = {} THEN <<>>
    ELSE LET x == CHOOSE y \in S : TRUE
         IN <<x>> \o SetToSeq(S \ {x})

\* rkyv::to_bytes(cache): the records, then the entries of lookup, then the
\* root object that counts them (rkyv writes the root last)
Serialize(c) ==
    LET keys == SetToSeq(DOMAIN c.lookup)
    IN [i \in 1..Len(c.records) |-> [tag |-> "record", value |-> c.records[i]]]
       \o [i \in 1..Len(keys) |->
              [tag |-> "entry", key |-> keys[i], value |-> c.lookup[keys[i]]]]
       \o <<[tag |-> "root", n_records |-> Len(c.records), n_entries |-> Len(keys)]>>

\* the bytes a write that failed part-way leaves: nothing, or all but the root
Truncations(bytes) ==
    {<<>>} \cup (IF bytes = <<>> THEN {} ELSE {SubSeq(bytes, 1, Len(bytes) - 1)})

\* rkyv::access's validation: the bytes hold a root, and the objects it counts
ValidArchive(bytes) ==
    /\ Len(bytes) >= 1
    /\ LET root == bytes[Len(bytes)]
       IN /\ root.tag = "root"
          /\ root.n_records + root.n_entries = Len(bytes) - 1
          /\ \A i \in 1..(Len(bytes) - 1) :
                bytes[i].tag = (IF i <= root.n_records THEN "record" ELSE "entry")

\* the ArchivedHgncCache that rkyv::access returns over valid bytes
Access(bytes) ==
    LET root == bytes[Len(bytes)]
        entries == SubSeq(bytes, root.n_records + 1, Len(bytes) - 1)
    IN [loaded |-> TRUE,
        records |-> [i \in 1..root.n_records |-> bytes[i].value],
        lookup |-> [k \in {entries[i].key : i \in 1..Len(entries)} |->
                      (CHOOSE e \in {entries[i] : i \in 1..Len(entries)} : e.key = k).value]]

NoView == [loaded |-> FALSE, records |-> <<>>, lookup |-> EmptyMap]

Absent == [exists |-> FALSE, bytes |-> <<>>]

File(bytes) == [exists |-> TRUE, bytes |-> bytes]

\* a dump that writes the records and leaves the index out
dump_records_only(c) == File(Serialize([c EXCEPT !.lookup = EmptyMap]))

\* dump_hgnc_cache when the write succeeds: the file at output_path afterwards
dump_hgnc_cache(c) == File(Serialize(c))

\* load_hgnc_cache on a file that reads: Ok(archived), or the panic of unwrap()
\* on rkyv::access's Err
load_hgnc_cache(file) ==
    IF ValidArchive(file.bytes)
    THEN [outcome |-> "ok", archived |-> Access(file.bytes)]
    ELSE [outcome |-> "panic", archived |-> NoView]

----------------------------------------------------------------------------
(* query_lookup_table *)

NotFoundPrefix == "Query '"
NotFoundSuffix == "' not found in cache"

\* the message carrying the normalized query instead of the original
NotFoundMessageNormalized(q) == <<NotFoundPrefix>> \o ToUppercase(q) \o <<NotFoundSuffix>>

\* the text of the Err: format!("Query '{}' not found in cache", query)
NotFoundMessage(q) == <<NotFoundPrefix>> \o q \o <<NotFoundSuffix>>

\* the key looked up without the uppercasing
QueryKeyAsTyped(q) == q

\* the key looked up: query.to_uppercase()
QueryKey(q) == ToUppercase(q)

\* query_lookup_table(query, cache): Ok(&cache.records[index]) or Err(message)
query_lookup_table(q, c) ==
    IF QueryKey(q) \in DOMAIN c.lookup
    THEN [kind |-> "ok", index |-> c.lookup[QueryKey(q)],
          record |-> c.records[c.lookup[QueryKey(q)] + 1]]
    ELSE [kind |-> "err", message |-> NotFoundMessage(q)]

NoResult == [kind |-> "none"]

----------------------------------------------------------------------------
(* Inputs *)

SeqsUpTo(S, n) == UNION {[1..k -> S] : k \in 0..n}

\* header rows: the columns in the dataset's order, reordered, one absent,
\* one named twice, symbol absent, symbol alone, a blank header line
HeaderNames ==
    {<<symbol, alias_symbol, prev_symbol>>,
     <<alias_symbol, symbol>>,
     <<hgnc_id, symbol, alias_symbol>>,
     <<symbol, symbol>>,
     <<prev_symbol, hgnc_id>>,
     <<symbol>>,
     << <<>> >>}

\* data rows, as their tab-separated fields: a blank line, rows shorter and
\* longer than the header, symbols in mixed case, shared symbols and aliases,
\* padded, empty and whitespace-only segments, the KELVIN SIGN
RowFields ==
    {<< <<>> >>,
     << <<"a">> >>,
     << <<"a">>, <<"k">> >>,
     << <<"k">>, <<"a">> >>,
     << <<"A">>, <<"k", Pipe, "a">> >>,
     << <<"a", "K">>, <<Space, "k", Space, Pipe, "A">> >>,
     << <<"k">>, <<>>, <<"a">> >>,
     << <<"a">>, <<"k", Pipe, Space, Pipe, "A">>, <<>> >>,
     << <<Kelvin>>, <<>>, <<"a", "K">> >>,
     << <<"K">>, <<Pipe, "a", Pipe>>, <<Space>> >>,
     << <<"a">>, <<"k">>, <<"A">>, <<"k">> >>,
     << <<>>, <<"a">> >>,
     << <<"A", "k">>, <<"a">>, <<"k", Pipe, "K">> >>,
     << <<"k", Space>>, <<>> >>}

RowLines == {Join(f, Tab) : f \in RowFields}

\* what create_hgnc_cache_from_reader is given: nothing, or a header line and
\* at most MaxRows data lines
ReaderInputs ==
    {<<>>} \cup
    {<<Join(h, Tab)>> \o rows : h \in HeaderNames, rows \in SeqsUpTo(RowLines, MaxRows)}

\* the inputs of a whole run of main: the dataset's header and a few rows
MainHeader == Join(<<symbol, alias_symbol, prev_symbol>>, Tab)

MainRowFields ==
    {<< <<"a">>, <<"k">> >>,
     << <<"k">>, <<"a">> >>,
     << <<"A", "k">>, <<"a", Pipe, Space, Pipe, "k">>, <<Kelvin>> >>}

MainInputs ==
    {<<>>} \cup
    {<<MainHeader>> \o rows :
        rows \in SeqsUpTo({Join(f, Tab) : f \in MainRowFields}, MaxRows)}

\* the archive an earlier run left: of an earlier dataset, whole or cut short
OldInput == <<MainHeader, Join(<< <<"k">>, <<"A">> >>, Tab)>>

OldBytes == Serialize(create_hgnc_cache_from_reader(OldInput).cache)

Archives == {Absent, File(OldBytes)} \cup {File(b) : b \in Truncations(OldBytes)}

\* the lines run_interactive reads from stdin
Queries ==
    {<<>>, <<"a">>, <<"A">>, <<"k">>, <<"K">>, <<Kelvin>>, <<"a", Space>>,
     <<"a", "k">>, <<"A", "K">>, <<Space>>, <<"a", Pipe, "k">>}

Cli == [set_file : BOOLEAN, interactive : BOOLEAN,
        force_rebuild : BOOLEAN, delete_cache : BOOLEAN]

----------------------------------------------------------------------------
(* main *)

Init ==
    /\ cli \in Cli
    /\ input \in MainInputs
    /\ archive \in Archives
    /\ pc = "main"
    /\ reader = <<>>
    /\ col_map = EmptyMap
    /\ cache = EmptyCache
    /\ view = NoView
    /\ query = <<>>
    /\ query_res = NoResult
    /\ log = <<>>

\* maybe_delete_cache_bin(cli.force_rebuild || cli.delete_cache), then the
\* early return of main on --delete-cache
MaybeDeleteCacheBin ==
    /\ pc = "main"
    /\ UNCHANGED <<cli, input, reader, col_map, cache, view, query, query_res>>
    /\ LET force == cli.force_rebuild \/ cli.delete_cache
           next == IF cli.delete_cache THEN "exit" ELSE "get"
       IN \/ /\ ~force
             /\ pc' = next
             /\ UNCHANGED <<archive, log>>
          \/ /\ force
             /\ archive' = Absent
             /\ log' = IF archive.exists THEN Append(log, "delete") ELSE log
             /\ pc' = next
          \/ /\ force
             \* get_hgnc_bin_cache_path or remove_file fails
             /\ pc' = "err"
             /\ UNCHANGED <<archive, log>>

\* get_hgnc_cache: get_hgnc_bin_cache_path or ensure_parent_dir fails
PathError ==
    /\ pc = "get"
    /\ pc' = "err"
    /\ UNCHANGED <<cli, input, archive, reader, col_map, cache, view, query,
                   query_res, log>>

\* get_hgnc_cache, Some(p): create_hgnc_cache opens the file
CreateHgncCache ==
    /\ pc = "get"
    /\ cli.set_file
    /\ UNCHANGED <<cli, input, archive, col_map, cache, view, query, query_res>>
    /\ \/ /\ reader' = input
          /\ log' = Append(log, "open")
          /\ pc' = "header"
       \/ \* File::open fails
          /\ pc' = "err"
          /\ UNCHANGED <<reader, log>>

\* get_hgnc_cache, None, no file at bin_path: download_hgnc_complete_set_bytes
Download ==
    /\ pc = "get"
    /\ ~cli.set_file
    /\ ~archive.exists
    /\ UNCHANGED <<cli, input, archive, col_map, cache, view, query, query_res>>
    /\ \/ /\ reader' = input
          /\ log' = Append(log, "fetch")
          /\ pc' = "header"
       \/ \* the transport fails, or the status is no success
          /\ pc' = "err"
          /\ UNCHANGED <<reader, log>>

\* create_hgnc_cache_from_reader: lines.next().ok_or("File is empty")??, then
\* the header's split and col_map
ReadHeader ==
    /\ pc = "header"
    /\ UNCHANGED <<cli, input, archive, view, query, query_res, log>>
    /\ IF reader = <<>>
       THEN /\ pc' = "err"
            /\ UNCHANGED <<reader, col_map, cache>>
       ELSE /\ col_map' = BuildColMap(Split(Head(reader), Tab), 0, EmptyMap)
            /\ cache' = EmptyCache
            /\ reader' = Tail(reader)
            /\ pc' = "rows"

\* create_hgnc_cache_from_reader: the read of the next line fails (the ? on
\* the header line or on line_result)
ReadError ==
    /\ pc \in {"header", "rows"}
    /\ reader # <<>>
    /\ pc' = "err"
    /\ UNCHANGED <<cli, input, archive, reader, col_map, cache, view, query,
                   query_res, log>>

\* create_hgnc_cache_from_reader: one iteration of the loop over the data lines
ProcessLine ==
    /\ pc = "rows"
    /\ reader # <<>>
    /\ cache' = ProcessRow(cache, col_map, Head(reader))
    /\ reader' = Tail(reader)
    /\ UNCHANGED <<cli, input, archive, pc, col_map, view, query, query_res, log>>

\* create_hgnc_cache_from_reader: the lines are exhausted, Ok(cache)
EndOfInput ==
    /\ pc = "rows"
    /\ reader = <<>>
    /\ log' = Append(log, "build")
    /\ pc' = "dump"
    /\ UNCHANGED <<cli, input, archive, reader, col_map, cache, view, query,
                   query_res>>

\* get_hgnc_cache: dump_hgnc_cache(&cache, &bin_path)?
Dump ==
    /\ pc = "dump"
    /\ UNCHANGED <<cli, input, reader, col_map, cache, view, query, query_res>>
    /\ \/ /\ archive' = dump_hgnc_cache(cache)
          /\ log' = Append(log, "write")
          /\ pc' = "load"
       \/ \* std::fs::write fails before it creates or truncates the file
          /\ pc' = "err"
          /\ UNCHANGED <<archive, log>>
       \/ \* std::fs::write fails part-way
          /\ \E b \in Truncations(Serialize(cache)) : archive' = File(b)
          /\ log' = Append(log, "write")
          /\ pc' = "err"

\* load_hgnc_cache(&bin_path): std::fs::read, then rkyv::access(..).unwrap()
LoadFile ==
    /\ UNCHANGED <<cli, input, archive, reader, col_map, cache, query, query_res>>
    /\ \/ /\ archive.exists
          /\ LET r == load_hgnc_cache(archive)
             IN /\ view' = r.archived
                /\ pc' = IF r.outcome = "ok" THEN "ready" ELSE "panic"
                /\ log' = Append(log, "load")
       \/ \* std::fs::read fails
          /\ pc' = "err"
          /\ UNCHANGED <<view, log>>

\* get_hgnc_cache, None, a file at bin_path: return load_hgnc_cache(&bin_path)
LoadExisting ==
    /\ pc = "get"
    /\ ~cli.set_file
    /\ archive.exists
    /\ LoadFile

\* get_hgnc_cache: load_hgnc_cache(&bin_path)? after the dump
LoadDumped ==
    /\ pc = "load"
    /\ LoadFile

\* main: interactive mode is the default when no --set-file is given
ChooseMode ==
    /\ pc = "ready"
    /\ pc' = IF cli.interactive \/ ~cli.set_file THEN "interactive" ELSE "exit"
    /\ UNCHANGED <<cli, input, archive, reader, col_map, cache, view, query,
                   query_res, log>>

\* run_interactive: one line of stdin, query_lookup_table(query, hgnc_cache)
Query ==
    /\ pc = "interactive"
    /\ \E q \in Queries :
          /\ query' = q
          /\ query_res' = query_lookup_table(q, view)
    /\ UNCHANGED <<cli, input, archive, pc, reader, col_map, cache, view, log>>

\* run_interactive: stdin ends (Ok) or a line fails to read (Err)
EndInteractive ==
    /\ pc = "interactive"
    /\ pc' \in {"exit", "err"}
    /\ UNCHANGED <<cli, input, archive, reader, col_map, cache, view, query,
                   query_res, log>>

Next ==
    \/ MaybeDeleteCacheBin
    \/ PathError
    \/ CreateHgncCache
    \/ Download
    \/ ReadHeader
    \/ ReadError
    \/ ProcessLine
    \/ EndOfInput
    \/ Dump
    \/ LoadExisting
    \/ LoadDumped
    \/ ChooseMode
    \/ Query
    \/ EndInteractive

Spec == Init /\ [][Next]_vars

----------------------------------------------------------------------------
(* create_hgnc_cache_from_reader on its own, then the dump, the load and    *)
(* queries: get_hgnc_cache(None) from the point where the download has      *)
(* delivered the reader                                                     *)

InitReader ==
    /\ cli = [set_file |-> FALSE, interactive |-> FALSE,
              force_rebuild |-> FALSE, delete_cache |-> FALSE]
    /\ input \in ReaderInputs
    /\ archive = Absent
    /\ pc = "header"
    /\ reader = input
    /\ col_map = EmptyMap
    /\ cache = EmptyCache
    /\ view = NoView
    /\ query = <<>>
    /\ query_res = NoResult
    /\ log = <<"fetch">>

NextReader ==
    \/ ReadHeader
    \/ ReadError
    \/ ProcessLine
    \/ EndOfInput
    \/ Dump
    \/ LoadDumped

SpecReader == InitReader /\ [][NextReader]_vars

----------------------------------------------------------------------------
(* Properties *)

Range(f) == {f[x] : x \in DOMAIN f}

Max(S) == CHOOSE x \in S : \A y \in S : y <= x

\* the data lines read so far
Consumed == SubSeq(input, 2, Len(input) - Len(reader))

\* the keys a record derives
KeysOf(record) == Range(RecordKeys(record))

\* the positions (from 0) of the records of c that derive key k
Deriving(c, k) == {p \in 0..(Len(c.records) - 1) : k \in KeysOf(c.records[p + 1])}

\* the parse has returned Ok(cache)
Built == pc \in {"dump", "load", "ready", "interactive", "exit"}

\* load_hgnc_cache has returned the view of an archive
Loaded == pc = "ready" /\ view.loaded

ValidPositions(c) ==
    \A k \in DOMAIN c.lookup : 0 <= c.lookup[k] /\ c.lookup[k] < Len(c.records)

\* C1: every value of the lookup mapping is a valid position into the record
\* sequence (0 <= value < number of records), in the cache while it is built
\* and returned, and in the loaded view that query_lookup_table indexes.
C1_ValidPositions == ValidPositions(cache) /\ ValidPositions(view)

\* C1's case: a loaded view of two records, a key for each position.
C1_Witness ==
    /\ Loaded
    /\ Len(view.records) = 2
    /\ {0, 1} \subseteq Range(view.lookup)

\* C2: last-write-wins. The keys of the index are the keys the rows derive,
\* and each key maps to the position of the latest row deriving it; a
\* collision never fails the parse.
C2_LastWriteWins ==
    (pc = "rows" \/ Built) =>
        /\ DOMAIN cache.lookup = UNION {KeysOf(cache.records[i]) : i \in 1..Len(cache.records)}
        /\ \A k \in DOMAIN cache.lookup : cache.lookup[k] = Max(Deriving(cache, k))

\* C2's case: two rows derive the same key, the parse has returned, and the
\* key maps to the later row.
C2_Witness ==
    /\ Built
    /\ Len(cache.records) = 2
    /\ \E k \in DOMAIN cache.lookup : Deriving(cache, k) = {0, 1} /\ cache.lookup[k] = 1

\* str::to_lowercase, character by character
LowerChar(c) ==
    CASE c = "A" -> "a"
      [] c = "K" -> "k"
      [] c = Kelvin -> "k"
      [] OTHER -> c

IsAscii(s) == \A i \in 1..Len(s) : s[i] # Kelvin

RECURSIVE CaseVariants(_)
\* the strings that differ from s in letter case only
CaseVariants(s) ==
    IF s = <<>> THEN {<<>>}
    ELSE {<<c>> \o t : c \in {Head(s), LowerChar(Head(s)), UpperChar(Head(s))},
                       t \in CaseVariants(Tail(s))}

\* every case variant of the record's symbol resolves, and to the record
\* that the symbol itself resolves to
CaseInsensitive(record) ==
    LET r == query_lookup_table(record.symbol, view)
    IN /\ r.kind = "ok"
       /\ \A q \in CaseVariants(record.symbol) :
             LET rq == query_lookup_table(q, view)
             IN rq.kind = "ok" /\ rq.index = r.index

UppercaseKeys == \A k \in DOMAIN view.lookup : [i \in 1..Len(k) |-> UpperChar(k[i])] = k

\* C3 as stated: for every record, the lookups of its symbol, of the symbol
\* in lowercase and of any mixed-case variant succeed and resolve to the
\* same record, and every key is uppercase-normalized.
C3_CaseInsensitiveAll ==
    Loaded =>
        /\ UppercaseKeys
        /\ \A i \in 1..Len(view.records) : CaseInsensitive(view.records[i])

\* C3, amended: the same, for every record whose symbol is ASCII.
C3_CaseInsensitiveAscii ==
    Loaded =>
        /\ UppercaseKeys
        /\ \A i \in 1..Len(view.records) :
              IsAscii(view.records[i].symbol) => CaseInsensitive(view.records[i])

\* C3's case: a record whose symbol is in mixed case, found under a variant
\* that is neither the symbol nor its key.
C3_Witness ==
    /\ Loaded
    /\ \E i \in 1..Len(view.records) :
          /\ view.records[i].symbol = <<"a", "K">>
          /\ query_lookup_table(<<"A", "k">>, view).kind = "ok"
          /\ query_lookup_table(<<"A", "k">>, view).record = view.records[i]

\* the pipe-delimited segments of the alias_symbol and prev_symbol fields
Segments(record) ==
    Range(Split(record.alias_symbol, Pipe)) \cup Range(Split(record.prev_symbol, Pipe))

\* C4 as stated: for every record and every pipe-delimited segment of its
\* alias_symbol and prev_symbol fields (the empty pieces of the split apart),
\* the lookup of the segment resolves to that record.
C4_SegmentsReachRecord ==
    Loaded =>
        \A i \in 1..Len(view.records) : \A seg \in Segments(view.records[i]) :
            seg # <<>> =>
                LET r == query_lookup_table(seg, view)
                IN r.kind = "ok" /\ r.index = i - 1

\* the record derives the key: from its symbol, or from a non-empty segment,
\* trimmed
Derives(record, key) ==
    \/ ToUppercase(record.symbol) = key
    \/ \E s \in Segments(record) : s # <<>> /\ ToUppercase(Trim(s)) = key

\* C4, amended: for every record and every non-empty segment, the lookup of
\* the trimmed segment resolves to the latest record deriving the segment's
\* key: to that record itself when no later record derives it.
C4_SegmentsReachLatest ==
    Loaded =>
        \A i \in 1..Len(view.records) : \A seg \in Segments(view.records[i]) :
            seg # <<>> =>
                LET r == query_lookup_table(Trim(seg), view)
                    key == ToUppercase(Trim(seg))
                IN /\ r.kind = "ok"
                   /\ r.index = Max({p \in (i - 1)..(Len(view.records) - 1) :
                                        Derives(view.records[p + 1], key)})

\* C4's case: a record with a padded two-segment alias field, both segments
\* resolving to it.
C4_Witness ==
    /\ Loaded
    /\ \E i \in 1..Len(view.records) :
          /\ view.records[i].alias_symbol = <<Space, "k", Space, Pipe, "A">>
          /\ query_lookup_table(<<"k">>, view).kind = "ok"
          /\ query_lookup_table(<<"k">>, view).index = i - 1
          /\ query_lookup_table(<<"A">>, view).index = i - 1

\* C5: a query whose uppercased form is not a key of the index (the query is
\* not trimmed) gets an error that carries the original query string, a hit
\* is a key of the index, and a query changes neither the view nor the
\* archive, so that a later query is answered as it would have been before.
C5_NotFound ==
    /\ [](query_res.kind = "err" =>
            /\ [i \in 1..Len(query) |-> UpperChar(query[i])] \notin DOMAIN view.lookup
            /\ SubSeq(query_res.message, 2, Len(query_res.message) - 1) = query)
    /\ [](query_res.kind = "ok" =>
            [i \in 1..Len(query) |-> UpperChar(query[i])] \in DOMAIN view.lookup)
    /\ [][pc = "interactive" => view' = view /\ archive' = archive]_vars

\* C5's case: the query "a " misses although "A" is a key, and the error
\* carries "a ", lowercase and with its trailing blank.
C5_Witness ==
    /\ pc = "interactive"
    /\ query = <<"a", Space>>
    /\ query_res.kind = "err"
    /\ <<"A">> \in DOMAIN view.lookup
    /\ query_res.message = <<"Query '", "a", Space, "' not found in cache">>

\* C6: loading an archive whose bytes do not match the expected layout
\* returns an error to the caller; the run never terminates abnormally.
C6_CorruptArchiveIsError == pc # "panic"

\* the steps of get_hgnc_cache done so far
Steps == SelectSeq(log, LAMBDA step : step # "delete")

IsPrefix(a, b) == Len(a) <= Len(b) /\ SubSeq(b, 1, Len(a)) = a

\* the three-way branch of get_hgnc_cache: the steps taken, in their order,
\* in each of the three cases; the archive is written only after a build
C9_Branches ==
    /\ cli.set_file =>
          IsPrefix(Steps, <<"open", "build", "write", "load">>)
    /\ (~cli.set_file /\ "fetch" \notin Range(log)) =>
          IsPrefix(Steps, <<"load">>)
    /\ (~cli.set_file /\ "fetch" \in Range(log)) =>
          IsPrefix(Steps, <<"fetch", "build", "write", "load">>)
    /\ pc \in {"ready", "interactive"} => Steps[Len(Steps)] = "load"

\* a failed build or fetch leaves the archive as it was
C9_ArchiveKept ==
    [][("write" \notin Range(log') /\ "delete" \notin Range(log')) => archive' = archive]_vars

\* C9: the three-way branch of get_hgnc_cache, and a failure at any step
\* (open or parse, fetch, write, load) returns an error.
C9_Lifecycle == C9_Branches /\ pc # "panic"

\* the keys the index builder is specified to derive from a record: the
\* uppercased symbol, and each segment that is non-empty once trimmed
SpecifiedKeys(record) ==
    {ToUppercase(record.symbol)} \cup
    {ToUppercase(Trim(seg)) : seg \in {x \in Segments(record) : Trim(x) # <<>>}}

\* C10: the keys inserted are exactly the uppercased symbol and the
\* uppercased trimmed non-empty segments of alias_symbol and prev_symbol; a
\* segment that is empty after trimming contributes no key.
C10_KeyDerivation ==
    (pc = "rows" \/ Built) =>
        DOMAIN cache.lookup =
            UNION {SpecifiedKeys(cache.records[i]) : i \in 1..Len(cache.records)}

\* the field of a data line under a column name: the field at the place the
\* header names it, empty when the header does not name it or the line has
\* no field there
NamedField(headers, fields, name) ==
    LET places == {j \in 1..Len(headers) : headers[j] = name}
    IN IF places = {} \/ Max(places) > Len(fields) THEN <<>> ELSE fields[Max(places)]

NamedRecord(headers, fields) ==
    [hgnc_id |-> NamedField(headers, fields, hgnc_id),
     symbol |-> NamedField(headers, fields, symbol),
     alias_symbol |-> NamedField(headers, fields, alias_symbol),
     prev_symbol |-> NamedField(headers, fields, prev_symbol)]

\* the parse fails before it returns only on an empty input or a failed
\* read, and an empty input always fails; no container is returned then
FailsOnlyWithoutHeaderOrOnReadError ==
    /\ (pc = "err" /\ "build" \notin Range(log)) =>
          /\ input = <<>> \/ reader # <<>>
          /\ ~view.loaded /\ ~archive.exists
    /\ input = <<>> => pc \in {"header", "err"}

\* one record per data line read, in input order, each field the one the
\* header names
OneRecordPerLine ==
    (pc = "rows" \/ Built) =>
        LET headers == Split(input[1], Tab)
        IN /\ Len(cache.records) = Len(Consumed)
           /\ \A i \in 1..Len(Consumed) :
                 cache.records[i] = NamedRecord(headers, Split(Consumed[i], Tab))
           /\ Built => Len(cache.records) = Len(input) - 1

ColumnPermutations(n) == {f \in [1..n -> 1..n] : \A i, j \in 1..n : f[i] = f[j] => i = j}

\* a data line with its columns permuted like the header's, a column the
\* line lacks being empty, the fields beyond the header staying in place
PermuteFields(fields, f, n) ==
    [i \in 1..n |-> IF f[i] <= Len(fields) THEN fields[f[i]] ELSE <<>>]
        \o SubSeq(fields, n + 1, Len(fields))

\* the input with the columns of the header and of every data line permuted
PermuteColumns(lines, f) ==
    LET n == Len(Split(lines[1], Tab))
    IN [i \in 1..Len(lines) |->
          IF i = 1
          THEN Join([j \in 1..n |-> Split(lines[1], Tab)[f[j]]], Tab)
          ELSE Join(PermuteFields(Split(lines[i], Tab), f, n), Tab)]

\* permuting the columns yields the same records
SameRecordsPermuted ==
    \A f \in ColumnPermutations(Len(Split(input[1], Tab))) :
        LET res == create_hgnc_cache_from_reader(PermuteColumns(input, f))
        IN res.ok /\ res.cache.records = cache.records

DistinctNames(headers) ==
    \A i, j \in 1..Len(headers) : headers[i] = headers[j] => i = j

\* C7 as stated: the parse fails only without a header or on a failed read;
\* otherwise one record per data line in input order, a field whose column
\* is absent or beyond the line's fields being empty; and permuting the
\* columns, header and rows alike, yields the same records.
C7_ParserAnyHeader ==
    /\ FailsOnlyWithoutHeaderOrOnReadError
    /\ OneRecordPerLine
    /\ pc = "dump" => SameRecordsPermuted

\* C7, amended: the same, the permutation of the columns yielding the same
\* records when no two columns of the header have the same name.
C7_ParserDistinctNames ==
    /\ FailsOnlyWithoutHeaderOrOnReadError
    /\ OneRecordPerLine
    /\ (pc = "dump" /\ DistinctNames(Split(input[1], Tab))) => SameRecordsPermuted

\* C7's case: a header without prev_symbol and with its columns reordered,
\* a line shorter than the header and a blank line, both parsed.
C7_Witness ==
    /\ pc = "dump"
    /\ Split(input[1], Tab) = <<alias_symbol, symbol>>
    /\ Len(input) = 3
    /\ input[2] = <<"a">>
    /\ input[3] = <<>>
    /\ cache.records[1] = [hgnc_id |-> <<>>, symbol |-> <<>>,
                           alias_symbol |-> <<"a">>, prev_symbol |-> <<>>]
    /\ cache.records[2].alias_symbol = <<>>

\* the query engine over the cache as built, before the dump
Original == [loaded |-> TRUE, records |-> cache.records, lookup |-> cache.lookup]

====
